---------------------------- MODULE Spec2Model ----------------------------
(***************************************************************************)
(* ARIMA CPU anomaly detection (src/main.py).                              *)
(*                                                                         *)
(* Two specifications over one set of variables:                           *)
(*                                                                         *)
(*   Spec     the __main__ pipeline: ensure_directories, the generator     *)
(*            stage, train_and_detect, visualize_results, save_report.     *)
(*            The table that flows through it is bounded by MaxRows rows   *)
(*            of whole-percent values, so that the residual statistics     *)
(*            are computed exactly within TLC's integers.                  *)
(*                                                                         *)
(*   SpecGen  generate_synthetic_data with the constants of the source     *)
(*            (720 hourly points, anomaly indices 50..680), called any     *)
(*            number of times with other draws on the global random        *)
(*            generator in between.                                        *)
(*                                                                         *)
(* Numbers.  CPU values of SpecGen are in hundredths of a percent.  A      *)
(* mean is the exact fraction num/den.  A standard deviation is kept as    *)
(* the exact quantity sqrt(ssd / dof) / n, with ssd the sum of the squared *)
(* n-scaled deviations, so no square root is ever rounded; comparisons     *)
(* against mean +- k*std are decided on the squares.                       *)
(***************************************************************************)
EXTENDS Integers, Sequences, FiniteSets

VARIABLES
    pc,            \* position of __main__ (Spec) / "idle" (SpecGen)
    dirs,          \* directories that exist
    CONFIG,        \* the CONFIG entries days and hours_per_day
    bitgen,        \* which fixed stream the library yields for a seed
    rng,           \* state of the global np.random generator
    data,          \* the object bound to `data` (generator's return value)
    results,       \* the object bound to `results` (train_and_detect's)
    published,     \* the table as it was when the generator returned it
    prev_data,     \* return value of the previous generator invocation
    calls,         \* generator invocations so far (SpecGen)
    draws,         \* draws by other code on the global generator (SpecGen)
    thresholds,    \* residual_mean, residual_std, upper/lower_threshold
    anomaly_count, \* anomaly_count of train_and_detect
    files,         \* data_path, plot_path, report_path
    error,         \* the exception that ended the run, "" if none
    failed_stage   \* the stage that raised it, "" if none

vars == << pc, dirs, CONFIG, bitgen, rng, data, results, published, prev_data,
           calls, draws, thresholds, anomaly_count, files, error, failed_stage >>

---------------------------------------------------------------------------
(* Bounds of the model.                                                    *)

MaxRows == 9
MaxCalls == 3
MaxDraws == 2
MaxBitgen == 2

---------------------------------------------------------------------------
(* Sequences.                                                              *)

RECURSIVE SumSeq(_)
SumSeq(s) == IF s = << >> THEN 0 ELSE Head(s) + SumSeq(Tail(s))

RECURSIVE CountTrue(_)
CountTrue(s) ==
    IF s = << >> THEN 0
    ELSE (IF Head(s) THEN 1 ELSE 0) + CountTrue(Tail(s))

Range(s) == { s[i] : i \in DOMAIN s }

---------------------------------------------------------------------------
(* The DataFrame: its column labels in order, and the five columns the     *)
(* program ever creates (an absent column is empty).                       *)

NoDF ==
    [ columns |-> << >>, timestamp |-> << >>, cpu_percent |-> << >>,
      predicted |-> << >>, residual |-> << >>, is_anomaly |-> << >> ]

IsDF(d) == d.columns # << >>

NRows(d) == Len(d.timestamp)

Col(d, name) ==
    CASE name = "timestamp"   -> d.timestamp
      [] name = "cpu_percent" -> d.cpu_percent
      [] name = "predicted"   -> d.predicted
      [] name = "residual"    -> d.residual
      [] name = "is_anomaly"  -> d.is_anomaly

HasCol(d, name) == name \in Range(d.columns)

\* pd.DataFrame({'timestamp': dates, 'cpu_percent': cpu_usage})
DataFrame(dates, cpu_usage) ==
    [ columns |-> << "timestamp", "cpu_percent" >>,
      timestamp |-> dates, cpu_percent |-> cpu_usage,
      predicted |-> << >>, residual |-> << >>, is_anomaly |-> << >> ]

\* pd.date_range(start='2024-01-01', periods=n, freq='H'), in hours since
\* the start.
date_range(n) == [ i \in 1..n |-> i - 1 ]

\* df[mask]: the rows whose mask is true, in their order, all columns.
RowsAll(d, mask) == [ i \in 1..NRows(d) |-> i ]

FilterRows(d, mask) ==
    SelectSeq([ i \in 1..NRows(d) |-> i ], LAMBDA i : mask[i])

BooleanIndex(d, mask) ==
    LET idx == FilterRows(d, mask)
        pick(col) == IF col = << >> THEN << >>
                     ELSE [ j \in 1..Len(idx) |-> col[idx[j]] ]
    IN  [ columns |-> d.columns,
          timestamp |-> pick(d.timestamp), cpu_percent |-> pick(d.cpu_percent),
          predicted |-> pick(d.predicted), residual |-> pick(d.residual),
          is_anomaly |-> pick(d.is_anomaly) ]

---------------------------------------------------------------------------
(* Files.                                                                  *)

NoFile == [ exists |-> FALSE, columns |-> << >>, rows |-> << >> ]

NoFiles == [ data_path |-> NoFile, plot_path |-> NoFile, report_path |-> NoFile ]

\* df.to_csv(path, index=False): the header, then one line per row holding
\* the row's value in every column, in column order.
to_csv(d) ==
    [ exists |-> TRUE,
      columns |-> d.columns,
      rows |-> [ i \in 1..NRows(d) |->
                   [ j \in 1..Len(d.columns) |-> Col(d, d.columns[j])[i] ] ] ]

---------------------------------------------------------------------------
(* Statistics of a column, exact.                                          *)

\* Series.mean(): sum / count; NaN on an empty column.
Mean(col) ==
    [ num |-> SumSeq(col), den |-> Len(col), nan |-> Len(col) = 0 ]

\* Series.std() is the sample standard deviation (ddof = 1):
\*   sqrt( sum (x - mean)^2 / (n - 1) ) = sqrt( ssd / dof ) / n
\* with ssd = sum (n*x - sum)^2 and dof = n - 1; NaN below two values.
StdPopulation(col) ==
    LET n == Len(col)
        S == SumSeq(col)
    IN  [ ssd |-> SumSeq([ i \in 1..n |-> (n * col[i] - S) * (n * col[i] - S) ]),
          n |-> n, dof |-> n, nan |-> n < 1 ]

Std(col) ==
    LET n == Len(col)
        S == SumSeq(col)
    IN  [ ssd |-> SumSeq([ i \in 1..n |-> (n * col[i] - S) * (n * col[i] - S) ]),
          n |-> n, dof |-> n - 1, nan |-> n < 2 ]

\* CONFIG['anomaly_threshold'] = 2.5
anomaly_threshold == [ num |-> 5, den |-> 2 ]

\* The value mean + sign * k * std.
UpperWithoutK(mean, std) ==
    [ mean |-> mean, std |-> std, knum |-> 1, kden |-> 1, sign |-> 1 ]

upper_threshold(mean, std) ==
    [ mean |-> mean, std |-> std,
      knum |-> anomaly_threshold.num, kden |-> anomaly_threshold.den, sign |-> 1 ]

lower_threshold(mean, std) ==
    [ mean |-> mean, std |-> std,
      knum |-> anomaly_threshold.num, kden |-> anomaly_threshold.den, sign |-> -1 ]

IsNaN(t) == t.mean.nan \/ t.std.nan

\* n * (x - mean), and the two sides of (x - mean)^2 ? (k * std)^2 brought
\* to the common denominator n^2 * kden^2 * dof.
Dev(x, t) == x * t.mean.den - t.mean.num
DevSq(x, t) == Dev(x, t) * Dev(x, t) * t.kden * t.kden * t.std.dof
SpreadSq(t) == t.knum * t.knum * t.std.ssd

\* x > t and x < t for a threshold t; every comparison with NaN is false.
GT(x, t) ==
    IF IsNaN(t) THEN FALSE
    ELSE IF t.sign = 1 THEN Dev(x, t) > 0 /\ DevSq(x, t) > SpreadSq(t)
    ELSE Dev(x, t) > 0 \/ DevSq(x, t) < SpreadSq(t)

LT(x, t) ==
    IF IsNaN(t) THEN FALSE
    ELSE IF t.sign = -1 THEN Dev(x, t) < 0 /\ DevSq(x, t) > SpreadSq(t)
    ELSE Dev(x, t) < 0 \/ DevSq(x, t) < SpreadSq(t)

\* (residual > upper_threshold) | (residual < lower_threshold)
IsAnomalyInclusive(x, upper, lower) ==
    (~IsNaN(upper) /\ ~LT(x, upper)) \/ (~IsNaN(lower) /\ ~GT(x, lower))

IsAnomalyLowerFlipped(x, upper, lower) == GT(x, upper) \/ GT(x, lower)

IsAnomaly(x, upper, lower) == GT(x, upper) \/ LT(x, lower)

NoThresholds ==
    LET m == Mean(<< >>)
        s == Std(<< >>)
    IN  [ residual_mean |-> m, residual_std |-> s,
          upper_threshold |-> upper_threshold(m, s),
          lower_threshold |-> lower_threshold(m, s) ]

---------------------------------------------------------------------------
(* The __main__ pipeline (Spec).                                           *)

Stages == << "ensure_directories", "generate", "train", "visualize", "save" >>

StageNo(stage) == CHOOSE i \in DOMAIN Stages : Stages[i] = stage

AfterStage(stage) ==
    IF StageNo(stage) = Len(Stages) THEN "done" ELSE Stages[StageNo(stage) + 1]

\* __main__ has no try/except, and neither has any stage: an exception
\* raised in a stage ends the interpreter with a traceback.
RaiseAndContinue(stage, exc) ==
    /\ pc' = AfterStage(stage)
    /\ error' = exc
    /\ failed_stage' = stage

Raise(stage, exc) ==
    /\ pc' = "failed"
    /\ error' = exc
    /\ failed_stage' = stage

\* What the generator and the random stream hold; untouched by the pipeline.
genvars == << CONFIG, bitgen, rng, prev_data, calls, draws >>

\* Values of the bounded tables of Spec, in whole percent.
CpuVals == { 10, 100 }

ensure_directories ==
    /\ pc = "ensure_directories"
    /\ dirs' = dirs \cup { "data", "outputs" }
    /\ pc' = "generate"
    /\ UNCHANGED << genvars, data, results, published, thresholds,
                    anomaly_count, files, error, failed_stage >>

\* The generator as __main__ sees it: it raises (an index outside the
\* array, a negative size, a data file that cannot be written) before it
\* has written anything, or it writes the table to data_path and returns
\* it.  The table is any table of 2..MaxRows rows with values in [0, 100].
generate_stage ==
    /\ pc = "generate"
    /\ \/ /\ \E exc \in { "IndexError", "ValueError", "OSError" } :
                Raise("generate", exc)
          /\ UNCHANGED << dirs, genvars, data, results, published, thresholds,
                          anomaly_count, files >>
       \/ /\ "data" \in dirs
          /\ \E n \in 2..MaxRows : \E cpu_usage \in [ 1..n -> CpuVals ] :
                LET df == DataFrame(date_range(n), cpu_usage)
                IN  /\ files' = [ files EXCEPT !.data_path = to_csv(df) ]
                    /\ data' = df
                    /\ published' = df
          /\ pc' = "train"
          /\ UNCHANGED << dirs, genvars, results, thresholds, anomaly_count,
                          error, failed_stage >>

\* model_fit.predict(start=0, end=len(df)-1) of the fitted ARIMA model, a
\* black box: one of a constant level, the series itself, or the previous
\* observation (0 before the first, as a model differenced once predicts).
Predictors == { "level", "exact", "lag" }

predict(series, how) ==
    [ i \in 1..Len(series) |->
        CASE how = "level" -> 10
          [] how = "exact" -> series[i]
          [] how = "lag"   -> IF i = 1 THEN 0 ELSE series[i - 1] ]

\* train_and_detect(df), lines 100-113, on a fitted model: the columns it
\* adds to df, the thresholds and the count.
Annotate(df, predicted) ==
    LET n == NRows(df)
        residual == [ i \in 1..n |-> df.cpu_percent[i] - predicted[i] ]
        residual_mean == Mean(residual)
        residual_std == Std(residual)
        upper == upper_threshold(residual_mean, residual_std)
        lower == lower_threshold(residual_mean, residual_std)
        is_anomaly == [ i \in 1..n |-> IsAnomaly(residual[i], upper, lower) ]
    IN  [ df |-> [ df EXCEPT !.columns = df.columns \o
                                << "predicted", "residual", "is_anomaly" >>,
                             !.predicted = predicted,
                             !.residual = residual,
                             !.is_anomaly = is_anomaly ],
          thresholds |-> [ residual_mean |-> residual_mean,
                           residual_std |-> residual_std,
                           upper_threshold |-> upper,
                           lower_threshold |-> lower ],
          anomaly_count |-> CountTrue(is_anomaly) ]

\* The fit raises, or df gets its three columns in place and is returned:
\* `results` is the object `data` is.
train_and_detect ==
    /\ pc = "train"
    /\ \/ /\ Raise("train", "ModelFitError")
          /\ UNCHANGED << dirs, genvars, data, results, published, thresholds,
                          anomaly_count, files >>
       \/ /\ \E how \in Predictors :
                LET out == Annotate(data, predict(data.cpu_percent, how))
                IN  /\ data' = out.df
                    /\ results' = out.df
                    /\ thresholds' = out.thresholds
                    /\ anomaly_count' = out.anomaly_count
          /\ pc' = "visualize"
          /\ UNCHANGED << dirs, genvars, published, files, error, failed_stage >>

\* The figure: the two curves, the markers, the count in the title.
Figure(df) ==
    LET anomalies == BooleanIndex(df, df.is_anomaly)
    IN  [ exists |-> TRUE,
          columns |-> << "actual", "predicted", "markers", "found" >>,
          rows |-> << df.cpu_percent, df.predicted, anomalies.timestamp,
                      << NRows(anomalies) >> >> ]

visualize_results ==
    /\ pc = "visualize"
    /\ HasCol(results, "is_anomaly")
    /\ \/ /\ Raise("visualize", "OSError")
          /\ UNCHANGED files
       \/ /\ "outputs" \in dirs
          /\ files' = [ files EXCEPT !.plot_path = Figure(results) ]
          /\ pc' = "save"
          /\ UNCHANGED << error, failed_stage >>
    /\ UNCHANGED << dirs, genvars, data, results, published, thresholds,
                    anomaly_count >>

save_report ==
    /\ pc = "save"
    /\ HasCol(results, "is_anomaly")
    /\ \/ /\ Raise("save", "OSError")
          /\ UNCHANGED files
       \/ /\ "outputs" \in dirs
          /\ LET anomalies == BooleanIndex(results, results.is_anomaly)
             IN  files' = [ files EXCEPT !.report_path = to_csv(anomalies) ]
          /\ pc' = "done"
          /\ UNCHANGED << error, failed_stage >>
    /\ UNCHANGED << dirs, genvars, data, results, published, thresholds,
                    anomaly_count >>

Init ==
    /\ pc = "ensure_directories"
    /\ dirs \in SUBSET { "data", "outputs" }
    /\ CONFIG = [ days |-> 30, hours_per_day |-> 24 ]
    /\ bitgen = 0
    /\ rng = [ seed |-> 0, pos |-> 0 ]
    /\ data = NoDF
    /\ results = NoDF
    /\ published = NoDF
    /\ prev_data = NoDF
    /\ calls = 0
    /\ draws = 0
    /\ thresholds = NoThresholds
    /\ anomaly_count = 0
    /\ files = NoFiles
    /\ error = ""
    /\ failed_stage = ""

Next ==
    \/ ensure_directories
    \/ generate_stage
    \/ train_and_detect
    \/ visualize_results
    \/ save_report

Spec == Init /\ [][Next]_vars

---------------------------------------------------------------------------
(* generate_synthetic_data with the constants of the source (SpecGen).     *)
(* Values are in hundredths of a percent.                                  *)

\* The global generator is a position in the stream of its seed.  What the
\* library's stream holds at a position is fixed but unknown: bitgen picks
\* it among a few candidates.
Stream(b, seed, pos) ==
    ((pos + 1) * (pos + 7 * b + 3) + seed * (b + 1) + (pos \div 3)) % 13

\* np.random.seed(s)
SeedIgnored(r, s) == r

np_random_seed(r, s) == [ seed |-> s, pos |-> 0 ]

\* One draw of np.random.normal(0, 2): within three standard deviations.
NormalDraw(b, r) == (Stream(b, r.seed, r.pos) - 6) * 100

\* np.random.choice([30, -25])
ChoiceDraw(b, r) == << 3000, -2500 >>[(Stream(b, r.seed, r.pos) % 2) + 1]

Advance(r, k) == [ r EXCEPT !.pos = r.pos + k ]

\* 10 * np.sin(2 * np.pi * time / 24), rounded to the hundredth.
SinTable ==
    << 0, 259, 500, 707, 866, 966, 1000, 966, 866, 707, 500, 259,
       0, -259, -500, -707, -866, -966, -1000, -966, -866, -707, -500, -259 >>

seasonality(t) == SinTable[(t % 24) + 1]

\* 0.05 * time
trend(t) == 5 * t

anomalies_indices == << 50, 120, 300, 550, 680 >>

\* np.clip(a, lo, hi)
np_clip(a, lo, hi) ==
    [ i \in DOMAIN a |-> IF a[i] < lo THEN lo ELSE IF a[i] > hi THEN hi ELSE a[i] ]

\* for idx in anomalies_indices: cpu_usage[idx] += np.random.choice(...)
\* The element is read before the choice is drawn; an index outside the
\* array raises IndexError there and the loop is left.
RECURSIVE Inject(_, _, _, _)
Inject(cpu_usage, b, r, k) ==
    IF k > Len(anomalies_indices)
    THEN [ cpu_usage |-> cpu_usage, rng |-> r, raised |-> "" ]
    ELSE LET idx == anomalies_indices[k]
         IN  IF idx >= Len(cpu_usage)
             THEN [ cpu_usage |-> cpu_usage, rng |-> r, raised |-> "IndexError" ]
             ELSE Inject([ cpu_usage EXCEPT ![idx + 1] = @ + ChoiceDraw(b, r) ],
                         b, Advance(r, 1), k + 1)

\* Lines 63-69: the injection loop, then the clip to 0-100.
ClipThenInject(cpu_usage, b, r) ==
    Inject(np_clip(cpu_usage, 0, 10000), b, r, 1)

InjectThenClip(cpu_usage, b, r) ==
    LET inj == Inject(cpu_usage, b, r, 1)
    IN  [ inj EXCEPT !.cpu_usage = np_clip(inj.cpu_usage, 0, 10000) ]

\* The body of generate_synthetic_data up to the DataFrame: what it raises,
\* the table, and the state it leaves the global generator in.
Generate(config, b, r) ==
    LET r0 == np_random_seed(r, 42)
        total_hours == config.days * config.hours_per_day
    IN  IF total_hours < 0
        THEN \* np.random.normal(0, 2, total_hours): negative dimensions
             [ raised |-> "ValueError", df |-> NoDF, rng |-> r0 ]
        ELSE LET noise == [ i \in 1..total_hours |-> NormalDraw(b, Advance(r0, i - 1)) ]
                 cpu_usage == [ i \in 1..total_hours |->
                                  4000 + seasonality(i - 1) + trend(i - 1) + noise[i] ]
                 out == InjectThenClip(cpu_usage, b, Advance(r0, total_hours))
             IN  IF out.raised # ""
                 THEN [ raised |-> out.raised, df |-> NoDF, rng |-> out.rng ]
                 ELSE [ raised |-> "",
                        df |-> DataFrame(date_range(total_hours), out.cpu_usage),
                        rng |-> out.rng ]

mainvars == << pc, dirs, results, published, thresholds, anomaly_count,
               failed_stage >>

generate_synthetic_data ==
    /\ calls < MaxCalls
    /\ LET g == Generate(CONFIG, bitgen, rng)
       IN  /\ rng' = g.rng
           /\ \/ /\ g.raised # ""
                 /\ error' = g.raised
                 /\ data' = NoDF
                 /\ UNCHANGED files
              \/ \* df.to_csv(CONFIG['data_path']) cannot write the file
                 /\ g.raised = ""
                 /\ error' = "OSError"
                 /\ data' = NoDF
                 /\ UNCHANGED files
              \/ /\ g.raised = ""
                 /\ "data" \in dirs
                 /\ error' = ""
                 /\ files' = [ files EXCEPT !.data_path = to_csv(g.df) ]
                 /\ data' = g.df
    /\ prev_data' = data
    /\ calls' = calls + 1
    /\ UNCHANGED << mainvars, CONFIG, bitgen, draws >>

\* Other code of the process draws from, or reseeds, the global generator.
other_draw ==
    /\ draws < MaxDraws
    /\ rng' = Advance(rng, 1)
    /\ draws' = draws + 1
    /\ UNCHANGED << mainvars, CONFIG, bitgen, data, prev_data, calls, files, error >>

other_seed ==
    /\ draws < MaxDraws
    /\ rng' = np_random_seed(rng, 7)
    /\ draws' = draws + 1
    /\ UNCHANGED << mainvars, CONFIG, bitgen, data, prev_data, calls, files, error >>

DaysSet == { -1, 0, 28, 29, 30, 31 }
HoursSet == { 12, 24 }

InitGen ==
    /\ pc = "idle"
    /\ dirs = { "data", "outputs" }
    /\ CONFIG \in [ days : DaysSet, hours_per_day : HoursSet ]
    /\ bitgen \in 0..MaxBitgen
    /\ rng = [ seed |-> 0, pos |-> 0 ]
    /\ data = NoDF
    /\ results = NoDF
    /\ published = NoDF
    /\ prev_data = NoDF
    /\ calls = 0
    /\ draws = 0
    /\ thresholds = NoThresholds
    /\ anomaly_count = 0
    /\ files = NoFiles
    /\ error = ""
    /\ failed_stage = ""

NextGen ==
    \/ generate_synthetic_data
    \/ other_draw
    \/ other_seed

SpecGen == InitGen /\ [][NextGen]_vars

---------------------------------------------------------------------------
(* Properties of the pipeline (Spec).                                      *)

Annotated == HasCol(results, "is_anomaly")

\* The statistics of the run, stated from the observed and predicted
\* columns alone: residuals r, their sum S, and Q = sum (n*r - S)^2, so
\* that (r - mean)^2 = (n*r - S)^2 / n^2 and std^2 = Q / (n^2 * (n - 1)).
RunResidual == [ i \in 1..NRows(results) |->
                   results.cpu_percent[i] - results.predicted[i] ]
RunSum == SumSeq(RunResidual)
RunDev(i) == NRows(results) * RunResidual[i] - RunSum
RunQ == SumSeq([ i \in 1..NRows(results) |-> RunDev(i) * RunDev(i) ])

\* C1: every index is flagged exactly when its residual (observed minus
\* predicted) lies strictly outside mean +- 2.5 * std, the mean and the
\* sample standard deviation being those of all residuals of the run; a
\* residual on a bound is not flagged.
Thm_C1_FlagIffOutsideBounds ==
    Annotated =>
        /\ results.residual = RunResidual
        /\ thresholds.residual_mean.num = RunSum
        /\ thresholds.residual_mean.den = NRows(results)
        /\ \A i \in 1..NRows(results) :
              results.is_anomaly[i] <=>
                  4 * (NRows(results) - 1) * RunDev(i) * RunDev(i) > 25 * RunQ

Wit_C1_FlaggedAndUnflagged ==
    /\ Annotated
    /\ \E i, j \in 1..NRows(results) :
          results.is_anomaly[i] /\ ~results.is_anomaly[j]

Scenario_C2 ==
    /\ Annotated
    /\ results.cpu_percent = << 10, 10, 10, 10, 100 >>
    /\ results.predicted = << 10, 10, 10, 10, 10 >>

\* C2 as stated: on observed [10,10,10,10,100] and predicted all 10 the
\* residuals are [0,0,0,0,90], the mean is 18, and exactly index 4 is
\* flagged.
Orig_C2_OnlyIndex4Flagged ==
    Scenario_C2 =>
        /\ results.residual = << 0, 0, 0, 0, 90 >>
        /\ thresholds.residual_mean.num = 18 * thresholds.residual_mean.den
        /\ results.is_anomaly = << FALSE, FALSE, FALSE, FALSE, TRUE >>

\* C2 amended: on that input the residuals are [0,0,0,0,90], the mean is
\* 18, and no index is flagged: 90 does not exceed mean + 2.5 * std
\* (std^2 = 1620, the bound is about 118.6).
Thm_C2_ScenarioFlagsNothing ==
    Scenario_C2 =>
        /\ results.residual = << 0, 0, 0, 0, 90 >>
        /\ thresholds.residual_mean.num = 18 * thresholds.residual_mean.den
        /\ results.is_anomaly = << FALSE, FALSE, FALSE, FALSE, FALSE >>
        /\ anomaly_count = 0

Wit_C2_ScenarioAnalysed == Scenario_C2 /\ pc = "visualize"

AllResidualsEqual ==
    /\ Annotated
    /\ \A i, j \in 1..NRows(results) : results.residual[i] = results.residual[j]

\* C3: when all residuals are equal the bounds are defined (not NaN) and
\* both equal the mean, no index is flagged and the count is 0; whenever
\* the standard deviation is 0, a flagged index has a residual that differs
\* from the mean.
Thm_C3_ZeroDeviation ==
    /\ AllResidualsEqual =>
          /\ ~IsNaN(thresholds.upper_threshold)
          /\ ~IsNaN(thresholds.lower_threshold)
          /\ thresholds.residual_std.ssd = 0
          /\ SpreadSq(thresholds.upper_threshold) = 0
          /\ SpreadSq(thresholds.lower_threshold) = 0
          /\ thresholds.residual_mean.num =
                 results.residual[1] * thresholds.residual_mean.den
          /\ \A i \in 1..NRows(results) : ~results.is_anomaly[i]
          /\ anomaly_count = 0
    /\ (Annotated /\ thresholds.residual_std.ssd = 0) =>
          \A i \in 1..NRows(results) :
              results.is_anomaly[i] =>
                  Dev(results.residual[i], thresholds.upper_threshold) # 0

Wit_C3_ConstantNonzeroResiduals ==
    AllResidualsEqual /\ results.residual[1] # 0

ReportRow(i) ==
    << results.timestamp[i], results.cpu_percent[i], results.predicted[i],
       results.residual[i], results.is_anomaly[i] >>

OutputOf(stage) ==
    CASE stage = "generate"  -> { "data_path" }
      [] stage = "visualize" -> { "plot_path" }
      [] stage = "save"      -> { "report_path" }
      [] OTHER               -> { }

FileAt(path) ==
    CASE path = "data_path"   -> files.data_path
      [] path = "plot_path"   -> files.plot_path
      [] path = "report_path" -> files.report_path

\* C5: once a stage has raised, the run is over: the failed stage and the
\* stages after it have written no file, and the files of the stages
\* before it are there as they were written.
Thm_C5_FailureStopsPipeline ==
    failed_stage # "" =>
        /\ pc = "failed"
        /\ error # ""
        /\ \A k \in DOMAIN Stages :
              \A path \in OutputOf(Stages[k]) :
                  IF k >= StageNo(failed_stage)
                  THEN ~FileAt(path).exists
                  ELSE FileAt(path).exists
        /\ StageNo(failed_stage) > StageNo("generate") =>
              files.data_path = to_csv(published)

Wit_C5_FitFailed ==
    /\ failed_stage = "train"
    /\ error = "ModelFitError"
    /\ files.data_path.exists

\* C7 as stated: train_and_detect leaves the table the generator returned
\* as it was, and visualize_results and save_report leave the annotated
\* record set as it was.
Orig_C7_NoStageMutatesPublished ==
    [][ /\ pc = "train" => data' = data
        /\ pc \in { "visualize", "save" } => results' = results ]_vars

---------------------------------------------------------------------------
(* Properties of the generator (SpecGen).                                  *)

TotalHours == CONFIG.days * CONFIG.hours_per_day

ValidConfig ==
    /\ CONFIG.days > 0
    /\ CONFIG.hours_per_day > 0
    /\ \A k \in DOMAIN anomalies_indices :
          anomalies_indices[k] >= 0 /\ anomalies_indices[k] < TotalHours

\* C6 as stated: called with an anomaly index outside [0, N), or with
\* non-positive days or hours, the generator reports a ConfigError and
\* produces no series and no data file.
Orig_C6_ConfigErrorReported ==
    (calls >= 1 /\ ~ValidConfig) =>
        /\ error = "ConfigError"
        /\ ~IsDF(data)
        /\ ~files.data_path.exists

\* C8: a returned series has days * hours_per_day entries, one per hour in
\* increasing time, and every value is within [0, 100] although anomaly
\* magnitudes were added; a valid configuration that could write its file
\* returns one.
Thm_C8_LengthStepAndRange ==
    /\ IsDF(data) =>
          /\ NRows(data) = TotalHours
          /\ Len(data.cpu_percent) = TotalHours
          /\ \A i \in 1..(TotalHours - 1) :
                data.timestamp[i + 1] = data.timestamp[i] + 1
          /\ \A i \in 1..TotalHours :
                data.cpu_percent[i] >= 0 /\ data.cpu_percent[i] <= 10000
    /\ (calls >= 1 /\ ValidConfig /\ error = "") => IsDF(data)

Wit_C8_SpikeClippedAt100 ==
    /\ IsDF(data)
    /\ data.cpu_percent[anomalies_indices[5] + 1] = 10000

\* C9: two invocations in one process return the same series, whatever
\* was drawn from, or done to, the global generator in between.
Thm_C9_SameSeries ==
    (calls >= 2 /\ IsDF(data) /\ IsDF(prev_data)) => data = prev_data

Wit_C9_TwoCallsDrawsBetween ==
    calls >= 2 /\ IsDF(data) /\ IsDF(prev_data) /\ draws >= 1

=============================================================================
